---------------------------- MODULE Spec2Model ----------------------------
(***************************************************************************)
(* State machine of the Calculator component                               *)
(* (src/client/Components/Calculator.tsx).                                 *)
(*                                                                         *)
(* A display is a JavaScript string, modelled as a sequence of one-        *)
(* character strings.  A JavaScript number is modelled as a record         *)
(*   [kind, neg, ds, e]                                                    *)
(* kind "fin": the value (-1)^neg * ds * 10^e, ds a sequence of decimal    *)
(* digits without leading or trailing zero (<<>> for zero, so that -0 and  *)
(* +0 are told apart by neg); kind "inf": (-1)^neg * Infinity; kind "nan": *)
(* NaN; kind "null": the null of a `number | null` field.                  *)
(*                                                                         *)
(* The operator keys for multiply and divide are written "*" and "/".      *)
(***************************************************************************)
EXTENDS Integers, Sequences, FiniteSets, TLC

\* Significant decimal digits of the operands and results of the arithmetic
\* that is explored (see InDomain).
MaxSig == 3

\* Largest |decimal exponent| of the operands and results of the arithmetic
\* that is explored (see InDomain).
MaxExp == 3

\* Longest sequence of inputs explored from the initial state.
MaxInputs == 6

\* The length at which inputDigit stops appending.
MaxDisplayLen == 12

-----------------------------------------------------------------------------
(* Characters and strings *)

DigitChars == <<"0", "1", "2", "3", "4", "5", "6", "7", "8", "9">>

IsDigit(c) == \E i \in 1..10 : DigitChars[i] = c

DigitVal(c) == (CHOOSE i \in 1..10 : DigitChars[i] = c) - 1

DigitChar(n) == DigitChars[n + 1]

InfinityStr == <<"I", "n", "f", "i", "n", "i", "t", "y">>

NaNStr == <<"N", "a", "N">>

\* the one-character string U+221E (the infinity sign), written "oo"
InfSymbolStr == <<"oo">>

\* s.includes(c)
Includes(s, c) == \E i \in 1..Len(s) : s[i] = c

\* s.indexOf(c), 1-based; 0 when c does not occur
IndexOf(s, c) ==
  IF Includes(s, c)
    THEN CHOOSE i \in 1..Len(s) : s[i] = c /\ \A j \in 1..(i - 1) : s[j] # c
    ELSE 0

\* s.startsWith("-")
StartsWithMinus(s) == Len(s) > 0 /\ s[1] = "-"

\* s.replace(/,/g, "")
RECURSIVE StripCommas(_)
StripCommas(s) ==
  IF s = <<>> THEN <<>>
  ELSE IF Head(s) = "," THEN StripCommas(Tail(s))
  ELSE <<Head(s)>> \o StripCommas(Tail(s))

Zeros(n) == [i \in 1..n |-> 0]

\* decimal digits of a natural number, most significant first (<<>> for 0)
RECURSIVE NatDigits(_)
NatDigits(n) == IF n = 0 THEN <<>> ELSE Append(NatDigits(n \div 10), n % 10)

\* value of a digit sequence
RECURSIVE DigitsNat(_)
DigitsNat(ds) ==
  IF ds = <<>> THEN 0
  ELSE 10 * DigitsNat(SubSeq(ds, 1, Len(ds) - 1)) + ds[Len(ds)]

DigitsStr(ds) == [i \in 1..Len(ds) |-> DigitChar(ds[i])]

StrDigits(s) == [i \in 1..Len(s) |-> DigitVal(s[i])]

NatStr(n) == IF n = 0 THEN <<"0">> ELSE DigitsStr(NatDigits(n))

-----------------------------------------------------------------------------
(* Numbers *)

Null == [kind |-> "null", neg |-> FALSE, ds |-> <<>>, e |-> 0]

NaN == [kind |-> "nan", neg |-> FALSE, ds |-> <<>>, e |-> 0]

Inf(neg) == [kind |-> "inf", neg |-> neg, ds |-> <<>>, e |-> 0]

Infinity == Inf(FALSE)

Zero(neg) == [kind |-> "fin", neg |-> neg, ds |-> <<>>, e |-> 0]

\* the finite number (-1)^neg * ds * 10^e, ds any digit sequence
Fin(neg, ds, e) ==
  IF \A i \in 1..Len(ds) : ds[i] = 0 THEN Zero(neg)
  ELSE LET first == CHOOSE i \in 1..Len(ds) :
                      ds[i] # 0 /\ \A j \in 1..(i - 1) : ds[j] = 0
           last  == CHOOSE i \in 1..Len(ds) :
                      ds[i] # 0 /\ \A j \in (i + 1)..Len(ds) : ds[j] = 0
       IN [kind |-> "fin", neg |-> neg,
           ds |-> SubSeq(ds, first, last), e |-> e + (Len(ds) - last)]

\* the finite number m * 10^e, m an integer
FromInt(m, e) == IF m < 0 THEN Fin(TRUE, NatDigits(-m), e)
                 ELSE Fin(FALSE, NatDigits(m), e)

IsZero(x) == x.kind = "fin" /\ x.ds = <<>>

\* Number.isFinite(x)
IsFinite(x) == x.kind = "fin"

IsNaN(x) == x.kind = "nan"

Negate(x) == IF x.kind = "nan" THEN x ELSE [x EXCEPT !.neg = ~x.neg]

\* Number.MAX_VALUE is 1.7976931348623157e308: a decimal d * 10^308 with
\* 1 <= d < 10 overflows to Infinity when its digits exceed OverflowDigits.
MaxDecimalExp == 308

OverflowDigits == <<1, 7, 9, 7, 6, 9, 3, 1, 3, 4, 8, 6, 2, 3, 1, 5, 8>>

\* Number.MIN_VALUE is 5e-324: a decimal d * 10^-324 with 1 <= d < 10
\* underflows to zero when its digits do not exceed UnderflowDigits.
MinDecimalExp == -324

UnderflowDigits == <<2, 4, 7, 0, 3, 2, 8, 2, 2, 9, 2, 0, 6, 2, 3, 2, 7>>

\* ds > ref, both read as the decimal fractions 0.ds and 0.ref
RECURSIVE DigitsGreater(_, _)
DigitsGreater(ds, ref) ==
  IF ds = <<>> THEN FALSE
  ELSE IF ref = <<>> THEN \E i \in 1..Len(ds) : ds[i] # 0
  ELSE IF Head(ds) # Head(ref) THEN Head(ds) > Head(ref)
  ELSE DigitsGreater(Tail(ds), Tail(ref))

\* the double that a decimal literal of value ds * 10^e denotes
Rounded(neg, ds, e) ==
  LET x == Fin(neg, ds, e)
      mag == Len(x.ds) + x.e - 1
  IN IF IsZero(x) THEN x
     ELSE IF mag > MaxDecimalExp
             \/ (mag = MaxDecimalExp /\ DigitsGreater(x.ds, OverflowDigits))
       THEN Inf(neg)
     ELSE IF mag < MinDecimalExp
             \/ (mag = MinDecimalExp /\ ~DigitsGreater(x.ds, UnderflowDigits))
       THEN Zero(neg)
     ELSE x

\* the value of an exponent part, kept within +-MaxExponentPart: a larger
\* exponent overflows or underflows any mantissa of a display
MaxExponentPart == 9999

ExponentValue(s) ==
  LET d == Fin(FALSE, StrDigits(s), 0)
  IN IF Len(d.ds) + d.e > 4 THEN MaxExponentPart
     ELSE DigitsNat(d.ds \o Zeros(d.e))

AllDigits(s) == \A i \in 1..Len(s) : IsDigit(s[i])

\* the value of a mantissa and an exponent part that are well formed
DecimalValue(neg, intp, frac, expo) ==
  LET eneg  == Len(expo) > 0 /\ expo[1] = "-"
      esign == Len(expo) > 0 /\ (expo[1] = "-" \/ expo[1] = "+")
      ev    == IF expo = <<>> THEN 0
               ELSE IF eneg THEN -ExponentValue(Tail(expo))
               ELSE IF esign THEN ExponentValue(Tail(expo))
               ELSE ExponentValue(expo)
  IN Rounded(neg, StrDigits(intp \o frac), ev - Len(frac))

\* exp = (e|E) [+-] digits, given without its first character
IsExponent(expo) ==
  LET esign == Len(expo) > 0 /\ (expo[1] = "-" \/ expo[1] = "+")
      edigs == IF esign THEN Tail(expo) ELSE expo
  IN Len(edigs) > 0 /\ AllDigits(edigs)

\* digits [. [digits]] | . digits
ParseMantissa(neg, mant, dot, hasExp, expo) ==
  LET intp == IF dot = 0 THEN mant ELSE SubSeq(mant, 1, dot - 1)
      frac == IF dot = 0 THEN <<>> ELSE SubSeq(mant, dot + 1, Len(mant))
  IN IF /\ AllDigits(intp) /\ AllDigits(frac) /\ Len(intp) + Len(frac) > 0
        /\ (hasExp => IsExponent(expo))
       THEN DecimalValue(neg, intp, frac, expo)
       ELSE NaN

\* the position of the exponent indicator of body, 0 without one
ExponentPos(body) ==
  IF Includes(body, "e")
    THEN IF Includes(body, "E") /\ IndexOf(body, "E") < IndexOf(body, "e")
           THEN IndexOf(body, "E") ELSE IndexOf(body, "e")
    ELSE IndexOf(body, "E")

ParseDecimal(neg, body, epos) ==
  IF epos = 0
    THEN ParseMantissa(neg, body, IndexOf(body, "."), FALSE, <<>>)
    ELSE ParseMantissa(neg, SubSeq(body, 1, epos - 1),
                       IndexOf(SubSeq(body, 1, epos - 1), "."), TRUE,
                       SubSeq(body, epos + 1, Len(body)))

ParseUnsigned(neg, body) ==
  IF body = InfinityStr THEN Inf(neg)
  ELSE ParseDecimal(neg, body, ExponentPos(body))

\* Number(s) for a string s without white space: StringToNumber of
\* ECMAScript on the StrDecimalLiteral grammar
\*   [+-] ( Infinity | digits [. [digits]] [exp] | . digits [exp] ),
\*   exp = (e|E) [+-] digits;
\* the empty string is 0 and every other string is NaN.
ToNumber(s) ==
  IF s = <<>> THEN Zero(FALSE)
  ELSE IF s[1] = "-" THEN ParseUnsigned(TRUE, Tail(s))
  ELSE IF s[1] = "+" THEN ParseUnsigned(FALSE, Tail(s))
  ELSE ParseUnsigned(FALSE, s)

\* String(x): Number::toString of ECMAScript, radix 10
NumberToString(x) ==
  IF x.kind = "nan" THEN NaNStr
  ELSE IF x.kind = "inf" THEN (IF x.neg THEN <<"-">> ELSE <<>>) \o InfinityStr
  ELSE IF IsZero(x) THEN <<"0">>
  ELSE
    LET k    == Len(x.ds)
        n    == k + x.e
        sign == IF x.neg THEN <<"-">> ELSE <<>>
        digs == DigitsStr(x.ds)
    IN IF k <= n /\ n <= 21
         THEN sign \o digs \o DigitsStr(Zeros(n - k))
       ELSE IF 0 < n /\ n <= 21
         THEN sign \o SubSeq(digs, 1, n) \o <<".">> \o SubSeq(digs, n + 1, k)
       ELSE IF -6 < n /\ n <= 0
         THEN sign \o <<"0", ".">> \o DigitsStr(Zeros(-n)) \o digs
       ELSE
         LET c    == n - 1
             es   == IF c < 0 THEN <<"-">> ELSE <<"+">>
             eabs == NatStr(IF c < 0 THEN -c ELSE c)
         IN IF k = 1
              THEN sign \o digs \o <<"e">> \o es \o eabs
              ELSE sign \o <<digs[1]>> \o <<".">> \o Tail(digs)
                        \o <<"e">> \o es \o eabs

-----------------------------------------------------------------------------
(* Arithmetic                                                              *)
(*                                                                         *)
(* The arithmetic of the source is IEEE 754 double arithmetic followed by  *)
(* String().  It is explored where decimal arithmetic and double           *)
(* arithmetic provably give the same string: both operands are doubles     *)
(* exactly (Exact: a decimal whose denominator is a power of two), and the *)
(* exact result is a decimal of at most MaxSig digits, which a correctly   *)
(* rounded operation followed by String() returns digit for digit.         *)
(* Outside of it (0.1 + 0.2, 1 / 3) an operation yields Undef, and the     *)
(* input that needs it is not explored.  Operations with a non-finite      *)
(* operand follow IEEE 754 and are always explored.                        *)

Undef == [kind |-> "undef", neg |-> FALSE, ds |-> <<>>, e |-> 0]

RECURSIVE Pow(_, _)
Pow(b, n) == IF n = 0 THEN 1 ELSE b * Pow(b, n - 1)

InDomain(x) ==
  /\ x.kind = "fin"
  /\ Len(x.ds) <= MaxSig
  /\ -MaxExp <= x.e /\ x.e <= MaxExp

\* x is a double exactly: x = m * 10^e with e >= 0, or 5^(-e) divides m
Exact(x) ==
  /\ InDomain(x)
  /\ (x.e >= 0 \/ DigitsNat(x.ds) % Pow(5, -x.e) = 0)

Mant(x) == IF x.neg THEN -DigitsNat(x.ds) ELSE DigitsNat(x.ds)

Bounded(x) == IF InDomain(x) THEN x ELSE Undef

Xor(p, q) == (p /\ ~q) \/ (~p /\ q)

\* a + b
Add(a, b) ==
  IF a.kind = "undef" \/ b.kind = "undef" THEN Undef
  ELSE IF a.kind = "nan" \/ b.kind = "nan" THEN NaN
  ELSE IF a.kind = "inf" /\ b.kind = "inf"
    THEN (IF a.neg = b.neg THEN a ELSE NaN)
  ELSE IF a.kind = "inf" THEN a
  ELSE IF b.kind = "inf" THEN b
  ELSE IF ~(Exact(a) /\ Exact(b)) THEN Undef
  ELSE LET emin == IF a.e < b.e THEN a.e ELSE b.e
           emax == IF a.e < b.e THEN b.e ELSE a.e
           sum  == Mant(a) * Pow(10, a.e - emin) + Mant(b) * Pow(10, b.e - emin)
       IN \* a sum of more than MaxSig digits is outside the domain
          IF ~IsZero(a) /\ ~IsZero(b) /\ emax - emin > MaxSig THEN Undef
          ELSE IF sum = 0 THEN Zero(a.neg /\ b.neg)
          ELSE Bounded(FromInt(sum, emin))

\* a - b
Sub(a, b) == Add(a, Negate(b))

\* a * b
Mul(a, b) ==
  IF a.kind = "undef" \/ b.kind = "undef" THEN Undef
  ELSE IF a.kind = "nan" \/ b.kind = "nan" THEN NaN
  ELSE IF a.kind = "inf" \/ b.kind = "inf"
    THEN (IF IsZero(a) \/ IsZero(b) THEN NaN ELSE Inf(Xor(a.neg, b.neg)))
  ELSE IF ~(Exact(a) /\ Exact(b)) THEN Undef
  ELSE Bounded(Fin(Xor(a.neg, b.neg),
                   NatDigits(DigitsNat(a.ds) * DigitsNat(b.ds)), a.e + b.e))

\* a / b
Div(a, b) ==
  IF a.kind = "undef" \/ b.kind = "undef" THEN Undef
  ELSE IF a.kind = "nan" \/ b.kind = "nan" THEN NaN
  ELSE IF a.kind = "inf"
    THEN (IF b.kind = "inf" THEN NaN ELSE Inf(Xor(a.neg, b.neg)))
  ELSE IF b.kind = "inf" THEN Zero(Xor(a.neg, b.neg))
  ELSE IF IsZero(b)
    THEN (IF IsZero(a) THEN NaN ELSE Inf(Xor(a.neg, b.neg)))
  ELSE IF ~(Exact(a) /\ Exact(b)) THEN Undef
  ELSE LET ma == DigitsNat(a.ds)
           mb == DigitsNat(b.ds)
           ks == {k \in 0..(2 * MaxSig - Len(a.ds)) : (ma * Pow(10, k)) % mb = 0}
       IN IF ks = {} THEN Undef
          ELSE LET k == CHOOSE k \in ks : \A j \in ks : k <= j
               IN Bounded(Fin(Xor(a.neg, b.neg),
                              NatDigits((ma * Pow(10, k)) \div mb),
                              a.e - b.e - k))

Hundred == FromInt(1, 2)

-----------------------------------------------------------------------------
(* The same numbers in binary.  A finite double is                        *)
(* (-1)^neg * bits * 2^exp, bits the binary digits of an odd natural       *)
(* number of at most Precision digits, most significant first (<<>> for    *)
(* zero, whose exp is 0).  Products and quotients are rounded to nearest,  *)
(* ties to even, as the operators * and / of the language round them; the  *)
(* exponent range is not modelled, the numbers of InDomain being far from  *)
(* its ends.                                                               *)

\* the binary digits of the significand of a double
Precision == 53

Front(q) == SubSeq(q, 1, Len(q) - 1)

\* binary digits of a natural number, most significant first (<<>> for 0)
RECURSIVE NatBits(_)
NatBits(n) == IF n = 0 THEN <<>> ELSE Append(NatBits(n \div 2), n % 2)

\* value of a sequence of binary digits
RECURSIVE BitsNat(_)
BitsNat(q) == IF q = <<>> THEN 0 ELSE 2 * BitsNat(Front(q)) + q[Len(q)]

\* cols[i] * 2^(Len(cols) - i) summed, and the carry c added: the Len(cols)
\* low binary digits of the sum and the carry out of them, the low half
\* first
RECURSIVE Carry(_, _)
Carry(cols, c) ==
  IF Len(cols) = 0 THEN [bits |-> <<>>, carry |-> c]
  ELSE IF Len(cols) = 1
    THEN [bits |-> <<(cols[1] + c) % 2>>, carry |-> (cols[1] + c) \div 2]
  ELSE LET h  == Len(cols) \div 2
           lo == Carry(SubSeq(cols, h + 1, Len(cols)), c)
           hi == Carry(SubSeq(cols, 1, h), lo.carry)
       IN \* the test has the low half evaluated before the high half
          IF lo.carry >= 0
            THEN [bits |-> hi.bits \o lo.bits, carry |-> hi.carry]
            ELSE lo

Carried(cols, c) == LET s == Carry(cols, c) IN NatBits(s.carry) \o s.bits

\* a + b for binary digit sequences
AddBits(a, b) ==
  LET n  == IF Len(a) > Len(b) THEN Len(a) ELSE Len(b)
      pa == Zeros(n - Len(a)) \o a
      pb == Zeros(n - Len(b)) \o b
  IN Carried([i \in 1..n |-> pa[i] + pb[i]], 0)

\* a * b for binary digit sequences: the columns of the long multiplication
MulBits(a, b) ==
  IF a = <<>> \/ b = <<>> THEN <<>>
  ELSE Carried([k \in 1..(Len(a) + Len(b) - 1) |->
                 Cardinality({i \in 1..Len(a) :
                   /\ k + 1 - i \in 1..Len(b)
                   /\ a[i] = 1
                   /\ b[k + 1 - i] = 1})], 0)

\* quotient and remainder of r * 2^Len(q) + q by the natural d, r < d, the
\* high half first
RECURSIVE DivFrom(_, _, _)
DivFrom(q, d, r) ==
  IF Len(q) = 0 THEN [q |-> <<>>, r |-> r]
  ELSE IF Len(q) = 1
    THEN LET t == 2 * r + q[1]
         IN IF t >= d THEN [q |-> <<1>>, r |-> t - d]
            ELSE [q |-> <<0>>, r |-> t]
  ELSE LET h  == Len(q) \div 2
           hi == DivFrom(SubSeq(q, 1, h), d, r)
           lo == DivFrom(SubSeq(q, h + 1, Len(q)), d, hi.r)
       IN [q |-> hi.q \o lo.q, r |-> lo.r]

\* quotient and remainder of the binary digit sequence q by the natural d
LongDiv(q, d) == DivFrom(q, d, 0)

\* the double (-1)^neg * q * 2^exp, q any binary digit sequence of at most
\* Precision significant digits
Dbl(neg, q, exp) ==
  IF \A i \in 1..Len(q) : q[i] = 0 THEN [neg |-> neg, bits |-> <<>>, exp |-> 0]
  ELSE LET first == CHOOSE i \in 1..Len(q) :
                      q[i] = 1 /\ \A j \in 1..(i - 1) : q[j] = 0
           last  == CHOOSE i \in 1..Len(q) :
                      q[i] = 1 /\ \A j \in (i + 1)..Len(q) : q[j] = 0
       IN [neg |-> neg, bits |-> SubSeq(q, first, last),
           exp |-> exp + (Len(q) - last)]

\* the double nearest to (-1)^neg * (q + f) * 2^exp, where 0 <= f < 1 and
\* sticky tells f > 0; ties go to the even significand
RoundDbl(neg, q, exp, sticky) ==
  LET first == IF \E i \in 1..Len(q) : q[i] = 1
                 THEN CHOOSE i \in 1..Len(q) :
                        q[i] = 1 /\ \A j \in 1..(i - 1) : q[j] = 0
                 ELSE Len(q) + 1
      b == SubSeq(q, first, Len(q))
  IN IF Len(b) <= Precision THEN Dbl(neg, b, exp)
     ELSE LET keep == SubSeq(b, 1, Precision)
              rest == sticky \/ \E i \in (Precision + 2)..Len(b) : b[i] = 1
              up   == b[Precision + 1] = 1 /\ (rest \/ keep[Precision] = 1)
          IN Dbl(neg, IF up THEN AddBits(keep, <<1>>) ELSE keep,
                 exp + (Len(b) - Precision))

\* x * y on doubles
DblMul(x, y) ==
  RoundDbl(Xor(x.neg, y.neg), MulBits(x.bits, y.bits), x.exp + y.exp, FALSE)

\* x / y on doubles, y not zero and its significand below 2^30
DblDiv(x, y) ==
  LET k == Precision + 2 + Len(y.bits)
      d == LongDiv(x.bits \o Zeros(k), BitsNat(y.bits))
  IN RoundDbl(Xor(x.neg, y.neg), d.q, x.exp - y.exp - k, d.r # 0)

\* the double of the number x of InDomain: Number() of its decimal literal
ToDbl(x) ==
  IF x.e >= 0
    THEN Dbl(x.neg, NatBits(DigitsNat(x.ds) * Pow(10, x.e)), 0)
    ELSE DblDiv(Dbl(x.neg, NatBits(DigitsNat(x.ds)), 0),
                Dbl(FALSE, NatBits(Pow(10, -x.e)), 0))

-----------------------------------------------------------------------------
(* The display formatter *)

\* thousands grouping of a string of digits
RECURSIVE Grouped(_)
Grouped(digs) ==
  IF Len(digs) <= 3 THEN digs
  ELSE Grouped(SubSeq(digs, 1, Len(digs) - 3)) \o <<",">>
         \o SubSeq(digs, Len(digs) - 2, Len(digs))

\* ds + 1, as digit sequences of the same or the next length
RECURSIVE Increment(_)
Increment(ds) ==
  IF ds = <<>> THEN <<1>>
  ELSE IF ds[Len(ds)] < 9
    THEN [ds EXCEPT ![Len(ds)] = ds[Len(ds)] + 1]
  ELSE Append(Increment(SubSeq(ds, 1, Len(ds) - 1)), 0)

\* the most fraction digits toLocaleString() shows
MaxFractionDigits == 3

\* n.toLocaleString() for a finite n in the en-US locale: the integer part
\* grouped by thousands, the fraction rounded half away from zero to
\* MaxFractionDigits digits, its trailing zeros dropped
LocaleString(x) ==
  LET k     == Len(x.ds)
      sign  == IF x.neg THEN <<"-">> ELSE <<>>
      \* the digits of |x| * 10^MaxFractionDigits, and the digit after them
      shift == x.e + MaxFractionDigits
      whole == IF shift >= 0 THEN x.ds \o Zeros(shift)
               ELSE IF k + shift > 0 THEN SubSeq(x.ds, 1, k + shift)
               ELSE <<>>
      next  == IF shift >= 0 THEN 0
               ELSE IF k + shift >= 0 THEN x.ds[k + shift + 1]
               ELSE 0
      round == IF next >= 5 THEN Increment(whole) ELSE whole
      pad   == IF Len(round) <= MaxFractionDigits
                 THEN Zeros(MaxFractionDigits + 1 - Len(round)) \o round
                 ELSE round
      intd  == SubSeq(pad, 1, Len(pad) - MaxFractionDigits)
      fracd == SubSeq(pad, Len(pad) - MaxFractionDigits + 1, Len(pad))
      ipart == Fin(FALSE, intd, 0)
      istr  == IF IsZero(ipart) THEN <<"0">>
               ELSE DigitsStr(ipart.ds \o Zeros(ipart.e))
      fpart == Fin(FALSE, <<1>> \o fracd, 0)
      fstr  == DigitsStr(Tail(fpart.ds))
  IN sign \o Grouped(istr)
       \o (IF fstr = <<>> THEN <<>> ELSE <<".">> \o fstr)

formatForDisplay(value) ==
  IF value = InfSymbolStr \/ value = NaNStr THEN value
  ELSE IF ~Includes(value, ".")
    THEN LET n == ToNumber(value)
         IN IF ~IsFinite(n) THEN value ELSE LocaleString(n)
  ELSE
    LET dot1  == IndexOf(value, ".")
        int   == SubSeq(value, 1, dot1 - 1)
        rest  == SubSeq(value, dot1 + 1, Len(value))
        dot2  == IndexOf(rest, ".")
        dec   == IF dot2 = 0 THEN rest ELSE SubSeq(rest, 1, dot2 - 1)
        n     == ToNumber(int)
        intPart == IF IsFinite(n) THEN LocaleString(n) ELSE int
    IN intPart \o <<".">> \o dec

-----------------------------------------------------------------------------
(* The component's state: the fields of CalcState *)

VARIABLES display, accumulator, operator, waitingForSecond, lastOp, lastArg

\* the null of an `Operator | null` field
NoOp == "null"

Operators == {"+", "-", "*", "/"}

\* the state of useState's initial value, and of clearAll
InitialState ==
  [display |-> <<"0">>, accumulator |-> Null, operator |-> NoOp,
   waitingForSecond |-> FALSE, lastOp |-> NoOp, lastArg |-> Null]

\* the current CalcState
state ==
  [display |-> display, accumulator |-> accumulator, operator |-> operator,
   waitingForSecond |-> waitingForSecond, lastOp |-> lastOp,
   lastArg |-> lastArg]

clearAll(s) == InitialState

\* clearEntry that always waits for a second operand
clearEntry_AlwaysWait(s) ==
  [s EXCEPT !.display = <<"0">>, !.waitingForSecond = TRUE]

clearEntry(s) ==
  [s EXCEPT !.display = <<"0">>,
            !.waitingForSecond = IF s.operator # NoOp THEN TRUE ELSE FALSE]

\* inputDigit with the cap compared by > instead of >=
inputDigit_OffByOne(s, d) ==
  IF s.waitingForSecond
    THEN [s EXCEPT !.display = <<d>>, !.waitingForSecond = FALSE]
  ELSE IF s.display = <<"0">> THEN [s EXCEPT !.display = <<d>>]
  ELSE IF Len(StripCommas(s.display)) > MaxDisplayLen THEN s
  ELSE [s EXCEPT !.display = s.display \o <<d>>]

\* inputDigit without the replacement of a display "0"
inputDigit_KeepZero(s, d) ==
  IF s.waitingForSecond
    THEN [s EXCEPT !.display = <<d>>, !.waitingForSecond = FALSE]
  ELSE IF Len(StripCommas(s.display)) >= MaxDisplayLen THEN s
  ELSE [s EXCEPT !.display = s.display \o <<d>>]

inputDigit(s, d) ==
  IF s.waitingForSecond
    THEN [s EXCEPT !.display = <<d>>, !.waitingForSecond = FALSE]
  ELSE IF s.display = <<"0">> THEN [s EXCEPT !.display = <<d>>]
  ELSE IF Len(StripCommas(s.display)) >= MaxDisplayLen THEN s
  ELSE [s EXCEPT !.display = s.display \o <<d>>]

\* inputDot without the waitingForSecond branch
inputDot_NoWait(s) ==
  IF Includes(s.display, ".") THEN s
  ELSE [s EXCEPT !.display = s.display \o <<".">>]

\* inputDot that appends the point to the display shown while waiting
inputDot_WaitAppend(s) ==
  IF s.waitingForSecond
    THEN [s EXCEPT !.display = s.display \o <<".">>,
                   !.waitingForSecond = FALSE]
  ELSE IF Includes(s.display, ".") THEN s
  ELSE [s EXCEPT !.display = s.display \o <<".">>]

\* inputDot without the test for a point already shown
inputDot_NoIncludes(s) ==
  IF s.waitingForSecond
    THEN [s EXCEPT !.display = <<"0", ".">>, !.waitingForSecond = FALSE]
  ELSE [s EXCEPT !.display = s.display \o <<".">>]

inputDot(s) ==
  IF s.waitingForSecond
    THEN [s EXCEPT !.display = <<"0", ".">>, !.waitingForSecond = FALSE]
  ELSE IF Includes(s.display, ".") THEN s
  ELSE [s EXCEPT !.display = s.display \o <<".">>]

\* toggleSign without the test for "0"
toggleSign_NoZeroTest(s) ==
  LET raw == StripCommas(s.display)
  IN IF StartsWithMinus(raw) THEN [s EXCEPT !.display = Tail(raw)]
     ELSE [s EXCEPT !.display = <<"-">> \o raw]

toggleSign(s) ==
  LET raw == StripCommas(s.display)
  IN IF raw = <<"0">> THEN s
     ELSE IF StartsWithMinus(raw) THEN [s EXCEPT !.display = Tail(raw)]
     ELSE [s EXCEPT !.display = <<"-">> \o raw]

\* percentValue that never refers to the accumulator
percentValue_Plain(s) ==
  LET raw == ToNumber(StripCommas(s.display))
  IN IF ~IsFinite(raw) THEN Null ELSE Div(raw, Hundred)

\* the number percent() writes to the display; Null when it returns s
percentValue(s) ==
  LET raw == ToNumber(StripCommas(s.display))
  IN IF ~IsFinite(raw) THEN Null
     ELSE IF s.accumulator # Null /\ s.operator # NoOp
       THEN IF s.operator = "+" \/ s.operator = "-"
              THEN Div(Mul(s.accumulator, raw), Hundred)
              ELSE Div(raw, Hundred)
     ELSE Div(raw, Hundred)

\* percent that ends the wait for a second operand, as an entry does
percent_EndsWait(s) ==
  LET v == percentValue(s)
  IN IF v = Null THEN s
     ELSE [s EXCEPT !.display = NumberToString(v), !.waitingForSecond = FALSE]

percent(s) ==
  LET v == percentValue(s)
  IN IF v = Null THEN s ELSE [s EXCEPT !.display = NumberToString(v)]

compute(a, b, op) ==
  CASE op = "+" -> Add(a, b)
    [] op = "-" -> Sub(a, b)
    [] op = "*" -> Mul(a, b)
    [] op = "/" -> IF IsZero(b) THEN Infinity ELSE Div(a, b)

\* the number setOperator(op) computes; Null when it computes none
setOperatorValue(s) ==
  IF s.operator # NoOp /\ ~s.waitingForSecond /\ s.accumulator # Null
    THEN compute(s.accumulator, ToNumber(StripCommas(s.display)), s.operator)
    ELSE Null

\* setOperator that never evaluates the pending operation
setOperator_NoChain(s, op) ==
  [s EXCEPT !.accumulator = ToNumber(StripCommas(s.display)), !.operator = op,
            !.waitingForSecond = TRUE, !.lastOp = NoOp, !.lastArg = Null]

\* setOperator that keeps lastOp and lastArg where it evaluates nothing
setOperator_KeepLast(s, op) ==
  LET a == s.accumulator
      b == ToNumber(StripCommas(s.display))
  IN IF s.operator # NoOp /\ ~s.waitingForSecond /\ a # Null
       THEN LET res == compute(a, b, s.operator)
            IN [display |-> NumberToString(res), accumulator |-> res,
                operator |-> op, waitingForSecond |-> TRUE,
                lastOp |-> NoOp, lastArg |-> Null]
       ELSE [s EXCEPT !.accumulator = b, !.operator = op,
                      !.waitingForSecond = TRUE]

\* setOperator without the waitingForSecond test
setOperator_NoWaitTest(s, op) ==
  LET a == s.accumulator
      b == ToNumber(StripCommas(s.display))
  IN IF s.operator # NoOp /\ a # Null
       THEN LET res == compute(a, b, s.operator)
            IN [display |-> NumberToString(res), accumulator |-> res,
                operator |-> op, waitingForSecond |-> TRUE,
                lastOp |-> NoOp, lastArg |-> Null]
       ELSE [s EXCEPT !.accumulator = b, !.operator = op,
                      !.waitingForSecond = TRUE,
                      !.lastOp = NoOp, !.lastArg = Null]

setOperator(s, op) ==
  LET a == s.accumulator
      b == ToNumber(StripCommas(s.display))
  IN IF s.operator # NoOp /\ ~s.waitingForSecond /\ a # Null
       THEN LET res == compute(a, b, s.operator)
            IN [display |-> NumberToString(res), accumulator |-> res,
                operator |-> op, waitingForSecond |-> TRUE,
                lastOp |-> NoOp, lastArg |-> Null]
       ELSE [s EXCEPT !.accumulator = b, !.operator = op,
                      !.waitingForSecond = TRUE,
                      !.lastOp = NoOp, !.lastArg = Null]

\* the number equals() computes; Null when it computes none
equalsValue(s) ==
  LET a == s.accumulator
      b == ToNumber(StripCommas(s.display))
  IN IF s.operator # NoOp /\ a # Null /\ ~s.waitingForSecond
       THEN compute(a, b, s.operator)
     ELSE IF s.lastOp # NoOp /\ s.lastArg # Null
       THEN compute(b, s.lastArg, s.lastOp)
     ELSE Null

\* equals that remembers the result instead of the second operand
equals_LastArgResult(s) ==
  LET a == s.accumulator
      b == ToNumber(StripCommas(s.display))
  IN IF s.operator # NoOp /\ a # Null /\ ~s.waitingForSecond
       THEN LET res == compute(a, b, s.operator)
            IN [display |-> NumberToString(res), accumulator |-> res,
                operator |-> NoOp, waitingForSecond |-> FALSE,
                lastOp |-> s.operator, lastArg |-> res]
     ELSE IF s.lastOp # NoOp /\ s.lastArg # Null
       THEN LET res == compute(b, s.lastArg, s.lastOp)
            IN [s EXCEPT !.display = NumberToString(res), !.accumulator = res]
     ELSE s

\* equals without the waitingForSecond test
equals_NoWaitTest(s) ==
  LET a == s.accumulator
      b == ToNumber(StripCommas(s.display))
  IN IF s.operator # NoOp /\ a # Null
       THEN LET res == compute(a, b, s.operator)
            IN [display |-> NumberToString(res), accumulator |-> res,
                operator |-> NoOp, waitingForSecond |-> FALSE,
                lastOp |-> s.operator, lastArg |-> b]
     ELSE IF s.lastOp # NoOp /\ s.lastArg # Null
       THEN LET res == compute(b, s.lastArg, s.lastOp)
            IN [s EXCEPT !.display = NumberToString(res), !.accumulator = res]
     ELSE s

\* equals that leaves the operator it applied pending
equals_KeepOperator(s) ==
  LET a == s.accumulator
      b == ToNumber(StripCommas(s.display))
  IN IF s.operator # NoOp /\ a # Null /\ ~s.waitingForSecond
       THEN LET res == compute(a, b, s.operator)
            IN [display |-> NumberToString(res), accumulator |-> res,
                operator |-> s.operator, waitingForSecond |-> FALSE,
                lastOp |-> s.operator, lastArg |-> b]
     ELSE IF s.lastOp # NoOp /\ s.lastArg # Null
       THEN LET res == compute(b, s.lastArg, s.lastOp)
            IN [s EXCEPT !.display = NumberToString(res), !.accumulator = res]
     ELSE s

equals(s) ==
  LET a == s.accumulator
      b == ToNumber(StripCommas(s.display))
  IN IF s.operator # NoOp /\ a # Null /\ ~s.waitingForSecond
       THEN LET res == compute(a, b, s.operator)
            IN [display |-> NumberToString(res), accumulator |-> res,
                operator |-> NoOp, waitingForSecond |-> FALSE,
                lastOp |-> s.operator, lastArg |-> b]
     ELSE IF s.lastOp # NoOp /\ s.lastArg # Null
       THEN LET res == compute(b, s.lastArg, s.lastOp)
            IN [s EXCEPT !.display = NumberToString(res), !.accumulator = res]
     ELSE s

\* the test of onClear and of clearLabel
Dirty(s) ==
  s.display # <<"0">> \/ s.accumulator # Null \/ s.operator # NoOp

\* onClear that resets everything once the display is "0"
onClear_ResetAtZero(s) ==
  IF s.display # <<"0">> THEN clearEntry(s) ELSE clearAll(s)

onClear(s) == IF Dirty(s) THEN clearEntry(s) ELSE clearAll(s)

clearLabel(s) == IF Dirty(s) THEN "C" ELSE "AC"

opActive(s, op) == s.operator = op /\ s.waitingForSecond

-----------------------------------------------------------------------------
(* Inputs *)

\* the number of inputs since the initial state, counted up to MaxInputs
VARIABLE inputs

\* The inputs since the initial state, for as long as they are the beginning
\* of one of the Scripts; Off afterwards.  The keys are written as on the
\* keypad: a digit, ".", an operator, "=", "%", "S" (sign toggle), "C" (clear).
VARIABLE typed

vars == <<display, accumulator, operator, waitingForSecond, lastOp, lastArg,
          inputs, typed>>

Off == <<"off">>

Scripts ==
  { <<"2", "+", "3", "*", "4", "=">>,
    <<"5", "+", "3", "=", "=", "=">>,
    <<"7", "+", "C", "C">>,
    <<"7", "+", "=">>,
    <<"7", "/", "0", "=", "7">>,
    <<"7", "/", "0", "+", ".">>,
    <<"7", "%", "+", ".", ".">>,
    <<"7", ".", ".">>,
    <<"7", "+", "7", "=", "+">>,
    <<"7", "/", "0", "=", "%">>,
    <<"7", "+", "C", "*">>,
    <<"7", "+", "*">>,
    <<"7", "C", "C">>,
    <<"7", "S", "S">>,
    <<"7", "+", "%">>,
    <<"1", "0", "0", "+", "1", "0", "%">>,
    <<"1", "0", "0", "*", "1", "0", "%">> }

IsPrefix(p, s) == Len(p) <= Len(s) /\ SubSeq(s, 1, Len(p)) = p

Track(t, key) ==
  IF t # Off /\ \E s \in Scripts : IsPrefix(Append(t, key), s)
    THEN Append(t, key)
    ELSE Off

\* setState(n); t is the new value of typed
Install(n, t) ==
  /\ display' = n.display
  /\ accumulator' = n.accumulator
  /\ operator' = n.operator
  /\ waitingForSecond' = n.waitingForSecond
  /\ lastOp' = n.lastOp
  /\ lastArg' = n.lastArg
  /\ inputs' = IF inputs < MaxInputs THEN inputs + 1 ELSE inputs
  /\ typed' = t

Init ==
  /\ display = InitialState.display
  /\ accumulator = InitialState.accumulator
  /\ operator = InitialState.operator
  /\ waitingForSecond = InitialState.waitingForSecond
  /\ lastOp = InitialState.lastOp
  /\ lastArg = InitialState.lastArg
  /\ inputs = 0
  /\ typed = <<>>

\* a digit key
InputDigit(d) ==
  /\ inputs < MaxInputs
  /\ Install(inputDigit(state, d), Track(typed, d))

\* the point key
InputDot ==
  /\ inputs < MaxInputs
  /\ Install(inputDot(state), Track(typed, "."))

\* the sign key
ToggleSign ==
  /\ inputs < MaxInputs
  /\ Install(toggleSign(state), Track(typed, "S"))

\* the percent key, where its arithmetic is explored
Percent ==
  /\ inputs < MaxInputs
  /\ percentValue(state).kind # "undef"
  /\ Install(percent(state), Track(typed, "%"))

\* an operator key, where its arithmetic is explored
SetOperator(op) ==
  /\ inputs < MaxInputs
  /\ setOperatorValue(state).kind # "undef"
  /\ Install(setOperator(state, op), Track(typed, op))

\* the equals key, where its arithmetic is explored
Equals ==
  /\ inputs < MaxInputs
  /\ equalsValue(state).kind # "undef"
  /\ Install(equals(state), Track(typed, "="))

\* the clear key
OnClear ==
  /\ inputs < MaxInputs
  /\ Install(onClear(state), Track(typed, "C"))

\* one input, the digit keys being those of K
Step(K) ==
  \/ \E d \in K : InputDigit(d)
  \/ InputDot
  \/ ToggleSign
  \/ Percent
  \/ \E op \in Operators : SetOperator(op)
  \/ Equals
  \/ OnClear

\* the digit keys pressed in Spec
Keys == {"0", "7"}

Next == Step(Keys)

Spec == Init /\ [][Next]_vars

\* the digit keys pressed in SpecChain
ChainKeys == {"2", "3", "4"}

SpecChain == Init /\ [][Step(ChainKeys)]_vars

\* the digit keys pressed in SpecRepeat
RepeatKeys == {"3", "5"}

SpecRepeat == Init /\ [][Step(RepeatKeys)]_vars

-----------------------------------------------------------------------------
(* Number entry: digits, the point and the sign alone, of any length.      *)
(* typed is here the sequence of digit and point keys since the initial    *)
(* state, for as long as it holds at most one point and at most            *)
(* MaxDisplayLen + 1 digits and no other key was pressed; Off afterwards.  *)

DigitKeys(t) == {i \in 1..Len(t) : IsDigit(t[i])}

PointKeys(t) == {i \in 1..Len(t) : t[i] = "."}

IsEntry(t) ==
  /\ \A i \in 1..Len(t) : IsDigit(t[i]) \/ t[i] = "."
  /\ Cardinality(PointKeys(t)) <= 1
  /\ Cardinality(DigitKeys(t)) <= MaxDisplayLen + 1

TrackEntry(t, key) ==
  IF t # Off /\ IsEntry(Append(t, key)) THEN Append(t, key) ELSE Off

EntryDigit(d) ==
  /\ IsDigit(d)
  /\ Install(inputDigit(state, d), TrackEntry(typed, d))

EntryDot ==
  /\ TRUE
  /\ Install(inputDot(state), TrackEntry(typed, "."))

EntrySign ==
  /\ TRUE
  /\ Install(toggleSign(state), TrackEntry(typed, "S"))

\* the digit keys pressed in SpecEntry
EntryKeys == {"0", "1"}

EntryNext ==
  \/ \E d \in EntryKeys : EntryDigit(d)
  \/ EntryDot
  \/ EntrySign

SpecEntry == Init /\ [][EntryNext]_vars

-----------------------------------------------------------------------------
(* Percent: number entry, operators and the percent key, one input more    *)
(* than in Spec.                                                           *)

MaxPercentInputs == MaxInputs + 1

\* setState(n), the input counted; t is the new value of typed
Counted(n, t) ==
  /\ display' = n.display
  /\ accumulator' = n.accumulator
  /\ operator' = n.operator
  /\ waitingForSecond' = n.waitingForSecond
  /\ lastOp' = n.lastOp
  /\ lastArg' = n.lastArg
  /\ inputs' = inputs + 1
  /\ typed' = t

PercentDigit(d) ==
  /\ inputs < MaxPercentInputs
  /\ Counted(inputDigit(state, d), Track(typed, d))

PercentDot ==
  /\ inputs < MaxPercentInputs
  /\ Counted(inputDot(state), Track(typed, "."))

PercentSign ==
  /\ inputs < MaxPercentInputs
  /\ Counted(toggleSign(state), Track(typed, "S"))

PercentOperator(op) ==
  /\ inputs < MaxPercentInputs
  /\ setOperatorValue(state).kind # "undef"
  /\ Counted(setOperator(state, op), Track(typed, op))

PercentPercent ==
  /\ inputs < MaxPercentInputs
  /\ percentValue(state).kind # "undef"
  /\ Counted(percent(state), Track(typed, "%"))

\* the digit keys pressed in SpecPercent
PercentKeys == {"0", "1"}

PercentNext ==
  \/ \E d \in PercentKeys : PercentDigit(d)
  \/ PercentDot
  \/ PercentSign
  \/ \E op \in Operators : PercentOperator(op)
  \/ PercentPercent

SpecPercent == Init /\ [][PercentNext]_vars

-----------------------------------------------------------------------------
(* Properties *)

AllDigitChars == {DigitChars[i] : i \in 1..10}

\* the display of s holds an infinite or a not-a-number value
NonFinite(s) == ~IsFinite(ToNumber(StripCommas(s.display)))

\* the inputs whose arithmetic is explored in the current state
PercentExplored == percentValue(state).kind # "undef"
SetOperatorExplored == setOperatorValue(state).kind # "undef"
EqualsExplored == equalsValue(state).kind # "undef"

\* C1: from the idle state clear() changes nothing; from every dirty state
\* one clear() sets display to "0" and keeps the pending operator and the
\* accumulator, and a second clear() yields the initial state.
C1_ClearTwiceResets ==
  /\ ~Dirty(state) => onClear(state) = state
  /\ Dirty(state) =>
       /\ onClear(state).display = <<"0">>
       /\ onClear(state).operator = operator
       /\ onClear(state).accumulator = accumulator
       /\ onClear(onClear(state)) = InitialState
  /\ typed = <<"7", "+", "C", "C">> => state = InitialState

\* C2: chooseOperator(op2) with op1 pending, an accumulator a and
\* waitingForSecond false evaluates the pending operation first: accumulator
\* and display become apply(op1, a, displayValue), operator becomes op2 and
\* waitingForSecond true; and 2, +, 3, *, 4, = ends with display 20.
C2_ChainLeftToRight ==
  /\ \A op2 \in Operators :
       (operator # NoOp /\ accumulator # Null /\ ~waitingForSecond
          /\ SetOperatorExplored) =>
         LET r == compute(accumulator, ToNumber(display), operator)
             n == setOperator(state, op2)
         IN /\ n.accumulator = r
            /\ n.display = NumberToString(r)
            /\ n.operator = op2
            /\ n.waitingForSecond
  /\ typed = <<"2", "+", "3", "*">> =>
       accumulator = FromInt(5, 0) /\ display = <<"5">> /\ operator = "*"
  /\ typed = <<"2", "+", "3", "*", "4", "=">> => display = <<"2", "0">>

C2_Witness ==
  /\ typed = <<"2", "+", "3", "*", "4", "=">>
  /\ accumulator = FromInt(20, 0)

\* C3: after an evaluate() that applied a pending operator op to a second
\* operand b, every further evaluate() sets display and accumulator to
\* apply(op, displayValue, b) and leaves lastOp and lastArg unchanged; and
\* 5, +, 3, = yields 8, a second = yields 11 and a third = yields 14.
C3_RepeatEquals ==
  /\ (operator = NoOp /\ lastOp # NoOp /\ lastArg # Null /\ EqualsExplored) =>
       LET r == compute(ToNumber(display), lastArg, lastOp)
       IN equals(state) = [state EXCEPT !.display = NumberToString(r),
                                        !.accumulator = r]
  /\ typed = <<"5", "+", "3", "=">> =>
       display = <<"8">> /\ lastOp = "+" /\ lastArg = FromInt(3, 0)
  /\ typed = <<"5", "+", "3", "=", "=">> =>
       display = <<"1", "1">> /\ lastOp = "+" /\ lastArg = FromInt(3, 0)
  /\ typed = <<"5", "+", "3", "=", "=", "=">> =>
       display = <<"1", "4">> /\ accumulator = FromInt(14, 0)
         /\ lastOp = "+" /\ lastArg = FromInt(3, 0)

C3_Witness ==
  /\ typed = <<"5", "+", "3", "=", "=", "=">>
  /\ display = <<"1", "4">>

\* C4: chooseOperator(op) followed immediately by evaluate() leaves all six
\* fields as chooseOperator(op) produced them.
C4_OperatorThenEqualsNoOp ==
  /\ \A op \in Operators :
       SetOperatorExplored =>
         equals(setOperator(state, op)) = setOperator(state, op)
  /\ typed = <<"7", "+", "=">> =>
       state = [InitialState EXCEPT !.display = <<"7">>,
                                    !.accumulator = FromInt(7, 0),
                                    !.operator = "+",
                                    !.waitingForSecond = TRUE]

C4_Witness ==
  /\ typed = <<"7", "+", "=">>
  /\ operator = "+"
  /\ waitingForSecond

\* C5: evaluating a pending divide whose second operand is zero yields the
\* positive infinity as accumulator and display, and the display formatter
\* renders that display as the infinity sign.
C5_DivisionByZeroShown ==
  /\ (operator = "/" /\ accumulator # Null /\ ~waitingForSecond
        /\ IsZero(ToNumber(display))) =>
       /\ equals(state).accumulator = Infinity
       /\ ToNumber(equals(state).display) = Infinity
       /\ formatForDisplay(equals(state).display) = InfSymbolStr
  /\ typed = <<"7", "/", "0", "=">> =>
       accumulator = Infinity /\ formatForDisplay(display) = InfSymbolStr

\* C6: in every state whose display shows an infinite or a not-a-number
\* value, digit(d) makes the display exactly d.
C6_DigitAfterNonFinite ==
  /\ \A d \in AllDigitChars :
       NonFinite(state) => inputDigit(state, d).display = <<d>>
  /\ typed = <<"7", "/", "0", "=", "7">> => display = <<"7">>

\* C7: every display parses to a finite or an infinite number, or is exactly
\* "NaN" or the infinity sign.
C7_DisplayWellFormed ==
  \/ ToNumber(display).kind \in {"fin", "inf"}
  \/ display = NaNStr
  \/ display = InfSymbolStr

\* C8 as claimed: decimalPoint, toggleSign, percent, chooseOperator and
\* evaluate never turn a non-finite display into a finite one.
C8_OnlyClearOrDigitLeaves ==
  NonFinite(state) =>
    /\ NonFinite(inputDot(state))
    /\ NonFinite(toggleSign(state))
    /\ PercentExplored => NonFinite(percent(state))
    /\ SetOperatorExplored =>
         \A op \in Operators : NonFinite(setOperator(state, op))
    /\ EqualsExplored => NonFinite(equals(state))

\* C8 as amended: toggleSign, percent, chooseOperator and evaluate never turn
\* a non-finite display into a finite one, and decimalPoint does so exactly
\* when waitingForSecond is true, where it starts the entry "0.".
C8_LeavingNonFinite ==
  NonFinite(state) =>
    /\ ~waitingForSecond => NonFinite(inputDot(state))
    /\ waitingForSecond => inputDot(state).display = <<"0", ".">>
    /\ NonFinite(toggleSign(state))
    /\ PercentExplored => NonFinite(percent(state))
    /\ SetOperatorExplored =>
         \A op \in Operators : NonFinite(setOperator(state, op))
    /\ EqualsExplored => NonFinite(equals(state))

C8_Witness ==
  /\ typed = <<"7", "/", "0", "+", ".">>
  /\ display = <<"0", ".">>
  /\ accumulator = Infinity

\* the digits of a display
DigitCount(s) == Cardinality({i \in 1..Len(s) : IsDigit(s[i])})

\* C9 as claimed: digit() never appends to a display that holds 12 digits,
\* and never refuses to append to a display that holds fewer than 12.
C9_CapCountsDigits ==
  \A d \in AllDigitChars :
    /\ DigitCount(display) >= MaxDisplayLen =>
         inputDigit(state, d).display # display \o <<d>>
    /\ (DigitCount(display) < MaxDisplayLen /\ ~waitingForSecond
          /\ display # <<"0">>) =>
         inputDigit(state, d).display = display \o <<d>>

\* C9 as amended: digit() never appends to a display of 12 or more
\* characters (digits, sign and point), which it leaves unchanged, and never
\* refuses to append to a display of fewer than 12 characters.
C9_CapCountsCharacters ==
  \A d \in AllDigitChars :
    /\ (Len(display) >= MaxDisplayLen /\ ~waitingForSecond) =>
         inputDigit(state, d).display = display
    /\ (Len(display) < MaxDisplayLen /\ ~waitingForSecond
          /\ display # <<"0">>) =>
         inputDigit(state, d).display = display \o <<d>>

C9_Witness ==
  /\ typed # Off
  /\ Len(typed) > MaxDisplayLen
  /\ typed[1] = "1"
  /\ Len(display) = MaxDisplayLen
  /\ DigitCount(display) < MaxDisplayLen
  /\ display = SubSeq(typed, 1, MaxDisplayLen)

\* the keys t appended to the initial display "0", a leading "0" being
\* replaced by the digit that follows it
RECURSIVE DropLeadingZeros(_)
DropLeadingZeros(s) ==
  IF Len(s) >= 2 /\ s[1] = "0" /\ IsDigit(s[2])
    THEN DropLeadingZeros(Tail(s))
    ELSE s

Literal(t) == DropLeadingZeros(<<"0">> \o t)

\* C10 as claimed: after digit keys and at most one point, at most 12
\* digits in total, the display is the concatenation of the keys.
C10_LiteralEntry ==
  (typed # Off /\ Cardinality(DigitKeys(typed)) <= MaxDisplayLen) =>
    display = Literal(typed)

\* C10 as amended: the display is the concatenation of the keys when that
\* concatenation has at most 12 characters, the point counted, or 13 with
\* the point as the last one.
C10_LiteralEntryWithinCap ==
  (typed # Off /\ Cardinality(DigitKeys(typed)) <= MaxDisplayLen
     /\ \/ Len(Literal(typed)) <= MaxDisplayLen
        \/ /\ Len(Literal(typed)) = MaxDisplayLen + 1
           /\ Literal(typed)[MaxDisplayLen + 1] = ".") =>
    display = Literal(typed)

C10_Witness ==
  /\ typed # Off
  /\ Len(typed) = MaxDisplayLen
  /\ typed[1] = "1"
  /\ typed[2] = "0"
  /\ typed[5] = "."
  /\ display = typed

\* the points of a display
PointCount(s) == Cardinality({i \in 1..Len(s) : s[i] = "."})

\* C11: every display holds at most one point, the displays written by
\* percent, by an operator that evaluates and by equals included.
C11_SinglePoint ==
  /\ PointCount(display) <= 1
  /\ PointCount(inputDot(state).display) = 1
  /\ PercentExplored => PointCount(percent(state).display) <= 1
  /\ EqualsExplored => PointCount(equals(state).display) <= 1
  /\ SetOperatorExplored =>
       \A op \in Operators : PointCount(setOperator(state, op).display) <= 1
  /\ typed = <<"7", "%">> => display = <<"0", ".", "0", "7">>
  /\ typed = <<"7", "%", "+", ".">> => display = <<"0", ".">>

C11_Witness ==
  /\ typed = <<"7", "%", "+", ".">>
  /\ accumulator = FromInt(7, -2)
  /\ PointCount(display) = 1

\* C12: two consecutive decimalPoint() calls yield the state that one call
\* yields.
C12_PointIdempotent ==
  /\ inputDot(inputDot(state)) = inputDot(state)
  /\ typed = <<"7", ".", ".">> => display = <<"7", ".">> /\ ~waitingForSecond
  /\ typed = <<"7", "%", "+", ".", ".">> =>
       display = <<"0", ".">> /\ ~waitingForSecond

C12_Witness ==
  /\ typed = <<"7", ".", ".">>
  /\ display = <<"7", ".">>

\* C13: waitingForSecond is true only with an operator pending, in every
\* state and in the state every handler yields from it.
C13_WaitingImpliesOperator ==
  /\ waitingForSecond => operator # NoOp
  /\ onClear(state).waitingForSecond => onClear(state).operator # NoOp
  /\ clearEntry(state).waitingForSecond => clearEntry(state).operator # NoOp
  /\ EqualsExplored =>
       (equals(state).waitingForSecond => equals(state).operator # NoOp)
  /\ SetOperatorExplored =>
       \A op \in Operators :
         /\ setOperator(state, op).waitingForSecond
         /\ setOperator(state, op).operator = op
  /\ typed = <<"7", "+", "C">> =>
       display = <<"0">> /\ waitingForSecond /\ operator = "+"

C13_Witness ==
  /\ typed = <<"7", "+", "C">>
  /\ display = <<"0">>
  /\ waitingForSecond
  /\ operator = "+"

\* lastOp and lastArg of the state n are both absent
NoLast(n) == n.lastOp = NoOp /\ n.lastArg = Null

\* n remembers nothing that s did not remember
NoNewLast(s, n) ==
  /\ s.lastOp = NoOp => n.lastOp = NoOp
  /\ s.lastArg = Null => n.lastArg = Null

\* C14: lastOp and lastArg go from absent to set only in an evaluate() that
\* applies a pending operator to an entered second operand, which they then
\* record, and after every chooseOperator(op) both are absent.
C14_LastLifecycle ==
  /\ \A d \in AllDigitChars : NoNewLast(state, inputDigit(state, d))
  /\ NoNewLast(state, inputDot(state))
  /\ NoNewLast(state, toggleSign(state))
  /\ NoNewLast(state, onClear(state))
  /\ PercentExplored => NoNewLast(state, percent(state))
  /\ SetOperatorExplored =>
       \A op \in Operators : NoLast(setOperator(state, op))
  /\ (EqualsExplored /\ ~NoNewLast(state, equals(state))) =>
       /\ operator # NoOp /\ accumulator # Null /\ ~waitingForSecond
       /\ equals(state).lastOp = operator
       /\ equals(state).lastArg = ToNumber(display)
  /\ typed = <<"7", "+", "7", "=">> =>
       lastOp = "+" /\ lastArg = FromInt(7, 0)
  /\ typed = <<"7", "+", "7", "=", "+">> => NoLast(state)

C14_Witness ==
  /\ typed = <<"7", "+", "7", "=", "+">>
  /\ accumulator = FromInt(14, 0)
  /\ NoLast(state)

\* the value of the number x as a double, a non-finite x standing for itself
DblValue(x) == IF x.kind = "fin" THEN ToDbl(x) ELSE x

\* x and y are one number: zero has one value, whatever its sign
SameValue(x, y) ==
  \/ x = y
  \/ /\ "bits" \in DOMAIN x /\ "bits" \in DOMAIN y
     /\ x.bits = <<>> /\ y.bits = <<>>

\* v / 100 in doubles
Hundredth(v) == DblDiv(ToDbl(v), ToDbl(Hundred))

\* a * (v / 100) in doubles, v finite
TimesHundredth(a, v) ==
  IF a.kind = "fin" THEN DblMul(ToDbl(a), Hundredth(v))
  ELSE IF a.kind = "nan" \/ IsZero(v) THEN NaN
  ELSE Inf(Xor(a.neg, v.neg))

\* (a * v) / 100 in doubles, v finite
ProductOverHundred(a, v) ==
  IF a.kind = "fin" THEN DblDiv(DblMul(ToDbl(a), ToDbl(v)), ToDbl(Hundred))
  ELSE IF a.kind = "nan" \/ IsZero(v) THEN NaN
  ELSE Inf(Xor(a.neg, v.neg))

\* percent() computes a number from a finite display value, with an add or
\* subtract pending
PercentOfAccumulator ==
  /\ PercentExplored
  /\ IsFinite(ToNumber(StripCommas(display)))
  /\ accumulator # Null
  /\ operator \in {"+", "-"}

\* percent() computes a number from a finite display value in another case
PercentPlain ==
  /\ PercentExplored
  /\ IsFinite(ToNumber(StripCommas(display)))
  /\ ~(accumulator # Null /\ operator \in {"+", "-"})

\* the value of the display percent() writes
PercentShown == DblValue(ToNumber(percent(state).display))

\* C15 as claimed: percent() on a finite display value v shows
\* accumulator * (v / 100) with an add or subtract pending and v / 100 in
\* every other case; 100, +, 10, % shows 10 and 100, *, 10, % shows 0.1.
C15_PercentOfAccumulator ==
  /\ PercentOfAccumulator =>
       SameValue(PercentShown,
                 TimesHundredth(accumulator, ToNumber(StripCommas(display))))
  /\ PercentPlain =>
       SameValue(PercentShown, Hundredth(ToNumber(StripCommas(display))))
  /\ typed = <<"1", "0", "0", "+", "1", "0", "%">> => display = <<"1", "0">>
  /\ typed = <<"1", "0", "0", "*", "1", "0", "%">> =>
       display = <<"0", ".", "1">>

\* C15 as amended: with an add or subtract pending percent() shows
\* (accumulator * v) / 100, the product rounded before the division.
C15_PercentProductOverHundred ==
  /\ PercentOfAccumulator =>
       SameValue(PercentShown,
                 ProductOverHundred(accumulator,
                                    ToNumber(StripCommas(display))))
  /\ PercentPlain =>
       SameValue(PercentShown, Hundredth(ToNumber(StripCommas(display))))
  /\ typed = <<"1", "0", "0", "+", "1", "0", "%">> => display = <<"1", "0">>
  /\ typed = <<"1", "0", "0", "*", "1", "0", "%">> =>
       display = <<"0", ".", "1">>

C15_Witness ==
  /\ typed = <<"1", "0", "0", "+", "1", "0", "%">>
  /\ display = <<"1", "0">>
  /\ accumulator = FromInt(1, 2)
  /\ operator = "+"

\* C16: percent() changes at most the display, and changes nothing when
\* the display value is not finite.
C16_PercentFrame ==
  /\ PercentExplored =>
       percent(state) = [state EXCEPT !.display = percent(state).display]
  /\ NonFinite(state) => PercentExplored /\ percent(state) = state
  /\ typed = <<"7", "+", "%">> =>
       state = [InitialState EXCEPT !.display = <<"0", ".", "4", "9">>,
                                    !.accumulator = FromInt(7, 0),
                                    !.operator = "+",
                                    !.waitingForSecond = TRUE]
  /\ typed = <<"7", "/", "0", "=", "%">> =>
       state = [InitialState EXCEPT !.display = InfinityStr,
                                    !.accumulator = Infinity,
                                    !.lastOp = "/",
                                    !.lastArg = Zero(FALSE)]

C16_Witness ==
  /\ typed = <<"7", "+", "%">>
  /\ display = <<"0", ".", "4", "9">>
  /\ waitingForSecond

\* C17: chooseOperator(op) invoked while waitingForSecond is true or while
\* no operator is pending evaluates nothing: the display is unchanged, the
\* accumulator becomes the display value, the operator op, waitingForSecond
\* true, and lastOp and lastArg absent.
C17_OperatorReplacement ==
  /\ (waitingForSecond \/ operator = NoOp) =>
       /\ SetOperatorExplored
       /\ \A op \in Operators :
            setOperator(state, op) =
              [display |-> display,
               accumulator |-> ToNumber(StripCommas(display)),
               operator |-> op, waitingForSecond |-> TRUE,
               lastOp |-> NoOp, lastArg |-> Null]
  /\ typed = <<"7", "+", "*">> =>
       display = <<"7">> /\ accumulator = FromInt(7, 0) /\ operator = "*"
  /\ typed = <<"7", "+", "C", "*">> =>
       display = <<"0">> /\ accumulator = Zero(FALSE) /\ operator = "*"

C17_Witness ==
  /\ typed = <<"7", "+", "C", "*">>
  /\ accumulator = Zero(FALSE)
  /\ operator = "*"
  /\ waitingForSecond

\* the states that one input yields from the current state, where its
\* arithmetic is explored
NextStates ==
  {inputDigit(state, d) : d \in AllDigitChars}
    \cup {inputDot(state), toggleSign(state), onClear(state)}
    \cup (IF PercentExplored THEN {percent(state)} ELSE {})
    \cup (IF SetOperatorExplored
            THEN {setOperator(state, op) : op \in Operators} ELSE {})
    \cup (IF EqualsExplored THEN {equals(state)} ELSE {})

\* C18: a state that passes the clean test is the initial state, so the
\* clear-all branch of clear() changes nothing; chooseOperator sets an
\* accumulator, and no input makes a present accumulator absent.
C18_CleanIsInitial ==
  /\ ~Dirty(state) => state = InitialState /\ onClear(state) = state
  /\ SetOperatorExplored =>
       \A op \in Operators : setOperator(state, op).accumulator # Null
  /\ accumulator # Null => \A n \in NextStates : n.accumulator # Null
  /\ typed = <<"7", "C">> => state = InitialState
  /\ typed = <<"7", "C", "C">> => state = InitialState
  /\ typed = <<"7", "+", "C", "C">> => accumulator = FromInt(7, 0)

C18_Witness ==
  /\ typed = <<"7", "C", "C">>
  /\ ~Dirty(state)
  /\ clearLabel(state) = "AC"

\* the state n holds no pending operation beside a remembered one, and
\* remembers an operator exactly when it remembers an operand
Coherent(n) ==
  /\ n.operator # NoOp => n.accumulator # Null /\ NoLast(n)
  /\ n.lastOp # NoOp <=> n.lastArg # Null

\* C19: a pending operator implies a present accumulator and absent lastOp
\* and lastArg, and lastOp is set exactly when lastArg is set, in every
\* state and in every state one input yields from it.
C19_PendingExcludesLast ==
  /\ Coherent(state)
  /\ \A n \in NextStates : Coherent(n)
  /\ typed = <<"7", "+", "7", "=">> =>
       operator = NoOp /\ lastOp = "+" /\ lastArg = FromInt(7, 0)

C19_Witness ==
  /\ typed = <<"7", "+", "7", "=">>
  /\ operator = NoOp
  /\ lastOp = "+"
  /\ lastArg = FromInt(7, 0)

\* C20: two consecutive toggleSign() calls yield the original state, one
\* call changes at most the display, and changes nothing when the display
\* is exactly "0".
C20_SignInvolution ==
  /\ toggleSign(toggleSign(state)) = state
  /\ toggleSign(state) = [state EXCEPT !.display = toggleSign(state).display]
  /\ display = <<"0">> => toggleSign(state) = state
  /\ display # <<"0">> => toggleSign(state).display # display
  /\ typed = <<"7", "S">> => display = <<"-", "7">>
  /\ typed = <<"7", "S", "S">> => display = <<"7">>

C20_Witness ==
  /\ typed = <<"7", "S", "S">>
  /\ display = <<"7">>
  /\ ~waitingForSecond

=============================================================================
